---- MODULE Spec2Model ----
(***************************************************************************)
(* Session engine of the Cartesia address-finder agent                     *)
(* (src/cartesia-agent/tools.py).  The module-level dict _session_state is *)
(* the variable of the same name; every loopback tool is one action.  The  *)
(* backend (Convex actions) and the notification sink (Convex mutation)    *)
(* are inputs: each reply is drawn from a bounded set.                     *)
(*                                                                         *)
(* Encodings: a Python str is a sequence of one-character strings; a value *)
(* that may be None is a sequence of length <= 1 (<<>> is None).  A        *)
(* suggestion dict keeps the keys the tools read or write: placeId,        *)
(* description, postcode (the other detail keys - suburb, lat, lng, types  *)
(* - are merged by the same dict.update and are left out, as is the        *)
(* detectedIntent a state update only passes on).                          *)
(*                                                                         *)
(* The variables tool, args, status, error, calls and pushed hold what the *)
(* last tool call was given, returned, asked of the backend and pushed to  *)
(* the sink; before is _session_state as the call found it.  The agent     *)
(* calls tools one at a time: a call runs to its return, then the agent    *)
(* takes the payload (AgentTurn) and may call again.  output is the rest   *)
(* of the returned payload (a count, the state view); the agent still has  *)
(* it in hand when it makes its next call.  awaited is set while a call is *)
(* suspended in an await (only where calls are followed await by await):   *)
(* what it waits for, the awaits still to come, and what it will return.   *)
(***************************************************************************)
EXTENDS Integers, Sequences, FiniteSets, TLC

VARIABLES _session_state, before, tool, args, status, error, output, calls, pushed,
          awaited

vars == <<_session_state, before, tool, args, status, error, output, calls, pushed,
          awaited>>

(* ------------------------------ bounds -------------------------------- *)

\* longest suggestion list a backend reply carries in the model
MaxLen == 2

(* --------------------------- Python values ---------------------------- *)

None == <<>>

Some(x) == <<x>>

\* absent / None value of a string-valued dict key
NoValue == "None"

(* ------------------------------ strings ------------------------------- *)

UpperChars == <<"A","B","C","D","E","F","G","H","I","J","K","L","M",
                "N","O","P","Q","R","S","T","U","V","W","X","Y","Z">>

LowerChars == <<"a","b","c","d","e","f","g","h","i","j","k","l","m",
                "n","o","p","q","r","s","t","u","v","w","x","y","z">>

IsDigit(c) == c \in {"0","1","2","3","4","5","6","7","8","9"}

IsSpace(c) == c \in {" "}

LowerChar(c) ==
    IF \E i \in 1..Len(UpperChars) : UpperChars[i] = c
    THEN LowerChars[CHOOSE i \in 1..Len(UpperChars) : UpperChars[i] = c]
    ELSE c

\* str.lower()
Lower(s) == [i \in 1..Len(s) |-> LowerChar(s[i])]

RECURSIVE LStrip(_)
LStrip(s) == IF Len(s) > 0 /\ IsSpace(Head(s)) THEN LStrip(Tail(s)) ELSE s

RECURSIVE RStrip(_)
RStrip(s) ==
    IF Len(s) > 0 /\ IsSpace(s[Len(s)])
    THEN RStrip(SubSeq(s, 1, Len(s) - 1))
    ELSE s

\* str.strip()
Strip(s) == RStrip(LStrip(s))

RECURSIVE SplitAcc(_, _, _)
SplitAcc(s, cur, acc) ==
    IF Len(s) = 0
    THEN IF Len(cur) = 0 THEN acc ELSE Append(acc, cur)
    ELSE IF IsSpace(Head(s))
         THEN SplitAcc(Tail(s), <<>>, IF Len(cur) = 0 THEN acc ELSE Append(acc, cur))
         ELSE SplitAcc(Tail(s), Append(cur, Head(s)), acc)

\* str.split(): the maximal runs of non-whitespace characters
Split(s) == SplitAcc(s, <<>>, <<>>)

(* ------------------------- intent classifier -------------------------- *)

street_keywords ==
    { <<"s","t","r","e","e","t">>, <<"s","t">>, <<"r","o","a","d">>, <<"r","d">>,
      <<"a","v","e","n","u","e">>, <<"a","v","e">>, <<"d","r","i","v","e">>, <<"d","r">>,
      <<"l","a","n","e">>, <<"l","n">>, <<"c","o","u","r","t">>, <<"c","t">>,
      <<"c","r","e","s","c","e","n","t">>, <<"c","r","e","s">>,
      <<"p","l","a","c","e">>, <<"p","l">>, <<"w","a","y">>,
      <<"p","a","r","a","d","e">>, <<"p","d","e">>,
      <<"b","o","u","l","e","v","a","r","d">>, <<"b","l","v","d">>,
      <<"h","i","g","h","w","a","y">>, <<"h","w","y">>,
      <<"t","e","r","r","a","c","e">>, <<"t","c","e">> }

\* _classify_intent with the street-keyword scan placed before the digit test
_classify_intent_StreetFirst(query) ==
    LET q == Lower(Strip(query))
        words == Split(q)
    IN  IF \E i \in 1..Len(words) : words[i] \in street_keywords THEN "street"
        ELSE IF Len(words) > 0 /\ IsDigit(words[1][1]) THEN "address"
        ELSE IF Len(words) = 1 /\ Len(q) >= 3 THEN "suburb"
        ELSE IF Len(words) = 2 /\ ~(\E i \in 1..Len(q) : IsDigit(q[i])) THEN "suburb"
        ELSE "general"

_classify_intent(query) ==
    LET q == Lower(Strip(query))
        words == Split(q)
    IN  IF Len(words) > 0 /\ IsDigit(words[1][1]) THEN "address"
        ELSE IF \E i \in 1..Len(words) : words[i] \in street_keywords THEN "street"
        ELSE IF Len(words) = 1 /\ Len(q) >= 3 THEN "suburb"
        ELSE IF Len(words) = 2 /\ ~(\E i \in 1..Len(q) : IsDigit(q[i])) THEN "suburb"
        ELSE "general"

(* ------------------------- backend and inputs ------------------------- *)

\* suggestions the backend can return: two share a placeId, one has none
Places ==
    { [placeId |-> "p1", description |-> "1 Smith St",     postcode |-> NoValue],
      [placeId |-> "p1", description |-> "1 Smith Street", postcode |-> NoValue],
      [placeId |-> "",   description |-> "Smith St",       postcode |-> NoValue] }

\* ranked lists of at most n suggestions, none listed twice
RECURSIVE ListsUpTo(_)
ListsUpTo(n) ==
    IF n = 0 THEN { <<>> }
    ELSE LET shorter == ListsUpTo(n - 1)
         IN  shorter \cup
             UNION { { Append(l, p) : p \in { x \in Places : \A i \in 1..Len(l) : l[i] # x } } :
                     l \in { m \in shorter : Len(m) = n - 1 } }

\* an HTTP call that raised (exception, timeout, non-2xx status)
Raised == [raised |-> TRUE, success |-> FALSE, suggestions |-> <<>>, details |-> None]

\* replies of address/getPlaceSuggestions with at most n suggestions
SuggestionReplies(n) ==
    { Raised, [Raised EXCEPT !.raised = FALSE] } \cup
    { [raised |-> FALSE, success |-> TRUE, suggestions |-> l, details |-> None] :
        l \in ListsUpTo(n) }

\* the loose lookup and the single lookup (the model caps the list at MaxLen)
LooseReplies == SuggestionReplies(MaxLen)

\* the strict lookup asks for maxResults = 1
StrictReplies == SuggestionReplies(1)

\* the details dict of address/getPlaceDetails; NoValue is a missing key
Details ==
    [formattedAddress : {NoValue, "1 Smith St, Richmond VIC"}, postcode : {"3121"}]

DetailsReplies ==
    { Raised, [Raised EXCEPT !.raised = FALSE],
      [raised |-> FALSE, success |-> TRUE, suggestions |-> <<>>, details |-> None] } \cup
    { [raised |-> FALSE, success |-> TRUE, suggestions |-> <<>>, details |-> Some(d)] :
        d \in Details }

\* queries the agent passes to search_address: "1 smith st", "Richmond", ""
Queries ==
    { <<"1"," ","s","m","i","t","h"," ","s","t">>,
      <<"R","i","c","h","m","o","n","d">>,
      <<>> }

PlaceIds == {"p1", "", "p9"}

NoArgs == [query |-> <<>>, place_id |-> "", ordinal |-> <<>>, acknowledged |-> <<>>]

(* ----------------------------- helpers -------------------------------- *)

\* value = (result or {}).get("value", result or {}); a raised call left None
ReplyValue(reply) == IF reply.raised THEN [Raised EXCEPT !.raised = FALSE] ELSE reply

\* one awaited _call_convex_action, with the selection state it was issued in
_call_convex_action(st, path, intent, reply) ==
    [path |-> path, intent |-> intent, reply |-> reply,
     current_selection |-> st.current_selection,
     selection_acknowledged |-> st.selection_acknowledged]

_format_suggestion(s) == [placeId |-> s.placeId, description |-> s.description]

FormatAll(l) == [i \in 1..Len(l) |-> _format_suggestion(l[i])]

\* the data dict of a state update; None is a key the update does not carry
NoData == [query |-> None, suggestions |-> <<>>, acknowledged |-> None, reason |-> None]

SuggestionsData(query, suggestions) ==
    [NoData EXCEPT !.query = Some(query), !.suggestions = FormatAll(suggestions)]

\* one awaited _push_state_update; a sink failure is caught and only logged
_push_state_update(st, update_type, data, sinkOk) ==
    [sessionId |-> st.session_id, updateType |-> update_type, data |-> data,
     delivered |-> sinkOk]

\* the payload beyond status and error: a count, the view of get_current_state
NoOutput == [count |-> None, view |-> None]

\* what one tool call leaves behind: the state, the returned status (with the
\* kind of its error string), the backend calls and the state updates it made
Outcome(st, s, e, c, p) ==
    [state |-> st, status |-> s, error |-> e, calls |-> c, pushed |-> p,
     output |-> NoOutput]

\* the same outcome with "count": n in its payload (or in its error string)
WithCount(out, n) == [out EXCEPT !.output.count = Some(n)]

NoError == "none"

\* variant of _reset_state that forgets the current_selection key
_reset_state_KeepsSelection(st) ==
    [st EXCEPT !.last_query = None, !.last_suggestions = <<>>,
               !.selection_acknowledged = FALSE]

_reset_state(st) ==
    [st EXCEPT !.last_query = None, !.last_suggestions = <<>>,
               !.current_selection = None, !.selection_acknowledged = FALSE]

(* --------------------------- search_address -------------------------- *)

\* variant of ClearSelection that does nothing
ClearSelection_Skipped(st) == st

\* "Clear existing selection on new search"
ClearSelection(st) ==
    [st EXCEPT !.current_selection = None, !.selection_acknowledged = FALSE]

\* the options list of a validated search
all_suggestions(validated, loose_value) ==
    IF loose_value.success THEN loose_value.suggestions ELSE <<validated>>

\* variant of StoreSearch that stores the suggestions but not the query
StoreSearch_DropsQuery(st, query, suggestions) ==
    [st EXCEPT !.last_suggestions = suggestions]

StoreSearch(st, query, suggestions) ==
    [st EXCEPT !.last_query = Some(query), !.last_suggestions = suggestions]

\* variant of ValidationFailed that empties the stored suggestions
ValidationFailed_ClearsCandidates(st, issued) ==
    Outcome([st EXCEPT !.last_suggestions = <<>>], "validation_failed", "not_validated",
            issued, <<>>)

\* neither lookup gave a result: nothing is stored, nothing is pushed
ValidationFailed(st, issued) ==
    Outcome(st, "validation_failed", "not_validated", issued, <<>>)

\* variant of SearchError that empties the stored search
SearchError_ClearsSearch(st, e, issued) ==
    Outcome([st EXCEPT !.last_query = None, !.last_suggestions = <<>>], "error", e,
            issued, <<>>)

\* variant of SearchError in which the lookup's exception is not caught
SearchError_Raises(st, e, issued) == Outcome(st, "unhandled_exception", e, issued, <<>>)

\* the single lookup raised or answered success = false: an early return
SearchError(st, e, issued) == Outcome(st, "error", e, issued, <<>>)

\* the address-intent branch: loose and strict lookups, strict first
DualSearch(st, query, loose, strict, sinkOk) ==
    LET loose_call   == _call_convex_action(st, "getPlaceSuggestions", "general", loose)
        strict_call  == _call_convex_action(st, "getPlaceSuggestions", "address", strict)
        strict_value == ReplyValue(strict)
        loose_value  == ReplyValue(loose)
        issued       == <<loose_call, strict_call>>
    IN  IF strict_value.success /\ Len(strict_value.suggestions) > 0
        THEN LET all == all_suggestions(strict_value.suggestions[1], loose_value)
                 st1 == StoreSearch(st, query, all)
             IN  WithCount(Outcome(st1, "validated", NoError, issued,
                             <<_push_state_update(st1, "suggestions",
                                                  SuggestionsData(query, all), sinkOk)>>),
                           1)
        ELSE IF loose_value.success /\ Len(loose_value.suggestions) > 0
        THEN LET st1 == StoreSearch(st, query, loose_value.suggestions)
             IN  WithCount(Outcome(st1, "suggestions_available", NoError, issued,
                             <<_push_state_update(st1, "suggestions",
                                   SuggestionsData(query, loose_value.suggestions), sinkOk)>>),
                           Len(loose_value.suggestions))
        ELSE ValidationFailed(st, issued)

\* variant of SingleSearch that returns no_results before storing and pushing
SingleSearch_ChecksFirst(st, query, intent, reply, sinkOk) ==
    LET issued == <<_call_convex_action(st, "getPlaceSuggestions", intent, reply)>>
    IN  IF reply.raised THEN SearchError(st, "search_failed", issued)
        ELSE IF ~reply.success THEN SearchError(st, "backend_error", issued)
        ELSE IF Len(reply.suggestions) = 0
        THEN Outcome(st, "no_results", NoError, issued, <<>>)
        ELSE LET st1 == StoreSearch(st, query, reply.suggestions)
             IN  Outcome(st1, "suggestions_available", NoError, issued,
                         <<_push_state_update(st1, "suggestions",
                               SuggestionsData(query, reply.suggestions), sinkOk)>>)

\* the non-address branch: one lookup in the classified mode
SingleSearch(st, query, intent, reply, sinkOk) ==
    LET issued == <<_call_convex_action(st, "getPlaceSuggestions", intent, reply)>>
    IN  IF reply.raised THEN SearchError(st, "search_failed", issued)
        ELSE IF ~reply.success THEN SearchError(st, "backend_error", issued)
        ELSE LET st1 == StoreSearch(st, query, reply.suggestions)
                 sent == <<_push_state_update(st1, "suggestions",
                               SuggestionsData(query, reply.suggestions), sinkOk)>>
             IN  IF Len(reply.suggestions) = 0
                 THEN Outcome(st1, "no_results", NoError, issued, sent)
                 ELSE WithCount(Outcome(st1, "suggestions_available", NoError, issued, sent),
                                Len(reply.suggestions))

\* the body of search_address once intent = _classify_intent(query) is known
search_address(st, query, intent, loose, strict, sinkOk) ==
    LET st0 == ClearSelection(st)
    IN  IF intent = "address"
        THEN DualSearch(st0, query, loose, strict, sinkOk)
        ELSE SingleSearch(st0, query, intent, loose, sinkOk)

(* -------------------------- select_suggestion ------------------------ *)

\* variant of FirstMatch without the break: the last match wins
FirstMatch_Last(suggestions, place_id) ==
    IF \E i \in 1..Len(suggestions) : suggestions[i].placeId = place_id
    THEN CHOOSE i \in 1..Len(suggestions) :
            /\ suggestions[i].placeId = place_id
            /\ \A j \in (i + 1)..Len(suggestions) : suggestions[j].placeId # place_id
    ELSE 0

\* the linear scan: the index of the first suggestion with that placeId, or 0
FirstMatch(suggestions, place_id) ==
    IF \E i \in 1..Len(suggestions) : suggestions[i].placeId = place_id
    THEN CHOOSE i \in 1..Len(suggestions) :
            /\ suggestions[i].placeId = place_id
            /\ \A j \in 1..(i - 1) : suggestions[j].placeId # place_id
    ELSE 0

\* enriched = dict(suggestion), updated from the details when the call gave some
Enrich(suggestion, reply) ==
    IF ~reply.raised /\ reply.success /\ Len(reply.details) > 0
    THEN LET details == reply.details[1]
         IN  [suggestion EXCEPT
                !.description = IF details.formattedAddress = NoValue
                                THEN @ ELSE details.formattedAddress,
                !.postcode = details.postcode]
    ELSE suggestion

\* select_suggestion with the try/except around the place-details call left out
select_suggestion_EnrichmentFatal(st, place_id, reply, sinkOk) ==
    LET found == FirstMatch(st.last_suggestions, place_id)
    IN  IF found = 0
        THEN Outcome(st, "not_found", "unknown_place_id", <<>>, <<>>)
        ELSE LET suggestion == st.last_suggestions[found]
                 issued   == <<_call_convex_action(st, "getPlaceDetails", "", reply)>>
                 enriched == Enrich(suggestion, reply)
                 st1      == [st EXCEPT !.current_selection = Some(enriched)]
             IN  IF reply.raised
                 THEN Outcome(st, "error", "enrichment_failed", issued, <<>>)
                 ELSE Outcome(st1, "confirmed", NoError, issued,
                              <<_push_state_update(st1, "selection",
                                    [NoData EXCEPT !.suggestions = FormatAll(<<enriched>>)],
                                    sinkOk)>>)

\* select_suggestion merging the details into the list's own dict (no dict(...) copy)
select_suggestion_EnrichesInPlace(st, place_id, reply, sinkOk) ==
    LET found == FirstMatch(st.last_suggestions, place_id)
    IN  IF found = 0
        THEN Outcome(st, "not_found", "unknown_place_id", <<>>, <<>>)
        ELSE LET suggestion == st.last_suggestions[found]
                 issued   == <<_call_convex_action(st, "getPlaceDetails", "", reply)>>
                 enriched == Enrich(suggestion, reply)
                 st1      == [st EXCEPT !.current_selection = Some(enriched),
                                        !.last_suggestions[found] = enriched]
             IN  Outcome(st1, "confirmed", NoError, issued,
                         <<_push_state_update(st1, "selection",
                               [NoData EXCEPT !.suggestions = FormatAll(<<enriched>>)],
                               sinkOk)>>)

select_suggestion(st, place_id, reply, sinkOk) ==
    LET found == FirstMatch(st.last_suggestions, place_id)
    IN  IF found = 0
        THEN Outcome(st, "not_found", "unknown_place_id", <<>>, <<>>)
        ELSE LET suggestion == st.last_suggestions[found]
                 issued   == <<_call_convex_action(st, "getPlaceDetails", "", reply)>>
                 enriched == Enrich(suggestion, reply)
                 st1      == [st EXCEPT !.current_selection = Some(enriched)]
             IN  Outcome(st1, "confirmed", NoError, issued,
                         <<_push_state_update(st1, "selection",
                               [NoData EXCEPT !.suggestions = FormatAll(<<enriched>>)],
                               sinkOk)>>)

(* -------------------------- select_by_ordinal ------------------------- *)

\* ordinal_map, zero-based as in the source
ordinal_map ==
    { << <<"f","i","r","s","t">>, 0 >>,     << <<"1">>, 0 >>, << <<"1","s","t">>, 0 >>,
      << <<"s","e","c","o","n","d">>, 1 >>, << <<"2">>, 1 >>, << <<"2","n","d">>, 1 >>,
      << <<"t","h","i","r","d">>, 2 >>,     << <<"3">>, 2 >>, << <<"3","r","d">>, 2 >>,
      << <<"f","o","u","r","t","h">>, 3 >>, << <<"4">>, 3 >>, << <<"4","t","h">>, 3 >>,
      << <<"f","i","f","t","h">>, 4 >>,     << <<"5">>, 4 >>, << <<"5","t","h">>, 4 >> }

\* ordinal_map.get(ordinal.lower().strip()): None or the index
OrdinalIndex(ordinal) ==
    LET key == Strip(Lower(ordinal))
    IN  IF \E e \in ordinal_map : e[1] = key
        THEN Some((CHOOSE e \in ordinal_map : e[1] = key)[2])
        ELSE None

\* select_by_ordinal looking at the candidate list before the ordinal
select_by_ordinal_EmptyFirst(st, index, reply, sinkOk) ==
    LET suggestions == st.last_suggestions
    IN  IF Len(suggestions) = 0
        THEN Outcome(st, "error", "no_results_to_select", <<>>, <<>>)
        ELSE IF index = None
        THEN Outcome(st, "error", "unrecognised_ordinal", <<>>, <<>>)
        ELSE IF index[1] >= Len(suggestions)
        THEN WithCount(Outcome(st, "error", "out_of_range", <<>>, <<>>), Len(suggestions))
        ELSE LET selected == suggestions[index[1] + 1]
             IN  IF selected.placeId = ""
                 THEN Outcome(st, "error", "no_place_id", <<>>, <<>>)
                 ELSE select_suggestion(st, selected.placeId, reply, sinkOk)

\* the body of select_by_ordinal once index = OrdinalIndex(ordinal) is known
select_by_ordinal(st, index, reply, sinkOk) ==
    LET suggestions == st.last_suggestions
    IN  IF index = None
        THEN Outcome(st, "error", "unrecognised_ordinal", <<>>, <<>>)
        ELSE IF Len(suggestions) = 0
        THEN Outcome(st, "error", "no_results_to_select", <<>>, <<>>)
        ELSE IF index[1] >= Len(suggestions)
        THEN WithCount(Outcome(st, "error", "out_of_range", <<>>, <<>>), Len(suggestions))
        ELSE LET selected == suggestions[index[1] + 1]
             IN  IF selected.placeId = ""
                 THEN Outcome(st, "error", "no_place_id", <<>>, <<>>)
                 ELSE select_suggestion(st, selected.placeId, reply, sinkOk)

(* ------------------------ state management tools ---------------------- *)

\* the payload of get_current_state has no status key
NoStatus == "none"

\* the JSON object get_current_state returns
StateView(st) ==
    [last_query |-> st.last_query,
     num_suggestions |-> Len(st.last_suggestions),
     has_selection |-> st.current_selection # None,
     selection_acknowledged |-> st.selection_acknowledged,
     current_selection |->
        IF st.current_selection # None
        THEN Some([description |-> st.current_selection[1].description,
                   postcode |-> st.current_selection[1].postcode])
        ELSE None]

get_current_state(st) ==
    [Outcome(st, NoStatus, NoError, <<>>, <<>>) EXCEPT !.output.view = Some(StateView(st))]

\* clear_selection dropping only the selection, not the search
clear_selection_OnlySelection(st, sinkOk) ==
    LET st1 == ClearSelection(st)
    IN  Outcome(st1, "cleared", NoError, <<>>,
                <<_push_state_update(st1, "clear", NoData, sinkOk)>>)

\* clear_selection with the sink's exception not caught in _push_state_update
clear_selection_SinkFatal(st, sinkOk) ==
    LET st1 == _reset_state(st)
        sent == <<_push_state_update(st1, "clear", NoData, sinkOk)>>
    IN  IF sinkOk
        THEN Outcome(st1, "cleared", NoError, <<>>, sent)
        ELSE Outcome(st1, "error", "push_failed", <<>>, sent)

clear_selection(st, sinkOk) ==
    LET st1 == _reset_state(st)
    IN  Outcome(st1, "cleared", NoError, <<>>,
                <<_push_state_update(st1, "clear", NoData, sinkOk)>>)

\* variant of show_options_again that clears the selection before its check
show_options_again_ClearsFirst(st, sinkOk) ==
    LET st1 == ClearSelection(st)
    IN  IF Len(st.last_suggestions) = 0 \/ st.last_query = None \/ Len(st.last_query[1]) = 0
        THEN Outcome(st1, "error", "no_previous_options", <<>>, <<>>)
        ELSE Outcome(st1, "options_displayed", NoError, <<>>,
                     <<_push_state_update(st1, "show_options_again",
                           SuggestionsData(st.last_query[1], st.last_suggestions), sinkOk)>>)

\* show_options_again testing `query is None` where the source tests `not query`
show_options_again_AcceptsEmptyQuery(st, sinkOk) ==
    LET suggestions == st.last_suggestions
        query == st.last_query
    IN  IF Len(suggestions) = 0 \/ query = None
        THEN Outcome(st, "error", "no_previous_options", <<>>, <<>>)
        ELSE LET st1 == ClearSelection(st)
             IN  WithCount(Outcome(st1, "options_displayed", NoError, <<>>,
                             <<_push_state_update(st1, "show_options_again",
                                   SuggestionsData(query[1], suggestions), sinkOk)>>),
                           Len(suggestions))

show_options_again(st, sinkOk) ==
    LET suggestions == st.last_suggestions
        query == st.last_query
    IN  IF Len(suggestions) = 0 \/ query = None \/ Len(query[1]) = 0
        THEN Outcome(st, "error", "no_previous_options", <<>>, <<>>)
        ELSE LET st1 == ClearSelection(st)
             IN  WithCount(Outcome(st1, "options_displayed", NoError, <<>>,
                             <<_push_state_update(st1, "show_options_again",
                                   SuggestionsData(query[1], suggestions), sinkOk)>>),
                           Len(suggestions))

\* confirm_user_selection recording the confirmation in the session state
confirm_user_selection_SetsAcknowledged(st) ==
    IF st.current_selection = None
    THEN Outcome(st, "error", "no_selection", <<>>, <<>>)
    ELSE Outcome([st EXCEPT !.selection_acknowledged = TRUE],
                 "acknowledged", NoError, <<>>, <<>>)

confirm_user_selection(st) ==
    IF st.current_selection = None
    THEN Outcome(st, "error", "no_selection", <<>>, <<>>)
    ELSE Outcome(st, "acknowledged", NoError, <<>>, <<>>)

\* is_ack compared without .lower().strip()
IsAck_Exact(acknowledged) ==
    acknowledged \in { <<"t","r","u","e">>, <<"1">>, <<"y","e","s">> }

\* acknowledged.lower().strip() in ("true", "1", "yes")
IsAck(acknowledged) ==
    Strip(Lower(acknowledged)) \in { <<"t","r","u","e">>, <<"1">>, <<"y","e","s">> }

set_selection_acknowledged(st, acknowledged, sinkOk) ==
    LET is_ack == IsAck(acknowledged)
        st1    == [st EXCEPT !.selection_acknowledged = is_ack]
    IN  Outcome(st1, "ok", NoError, <<>>,
                <<_push_state_update(st1, "selection_acknowledged",
                      [NoData EXCEPT !.acknowledged = Some(is_ack)], sinkOk)>>)

request_manual_input(st, reason, sinkOk) ==
    Outcome(st, "hybrid_mode_activated", NoError, <<>>,
            <<_push_state_update(st, "request_manual_input",
                  [NoData EXCEPT !.reason = Some(reason)], sinkOk)>>)

\* what the agent says for an ordinal: "second", " 1ST ", "3", "tenth"
Ordinals ==
    { <<"s","e","c","o","n","d">>, <<" ","1","S","T"," ">>, <<"3">>,
      <<"t","e","n","t","h">> }

\* what the agent passes to set_selection_acknowledged:
\* "true", " Yes", "1", "false", "y"
AckInputs ==
    { <<"t","r","u","e">>, <<" ","Y","e","s">>, <<"1">>,
      <<"f","a","l","s","e">>, <<"y">> }

(* ------------------------------ actions ------------------------------- *)

\* no tool call is in progress: the agent is choosing its next call
Idle == "none"

\* the call was abandoned in an await (asyncio.CancelledError is no Exception,
\* so no except clause of the tools catches it)
Cancelled == "cancelled"

\* a tool called by the agent runs to its return: the new state and what it returned
Return(name, a, out) ==
    /\ tool = Idle
    /\ before' = _session_state
    /\ _session_state' = out.state
    /\ tool' = name
    /\ args' = a
    /\ status' = out.status
    /\ error' = out.error
    /\ output' = out.output
    /\ calls' = out.calls
    /\ pushed' = out.pushed
    /\ awaited' = None

\* the module-level dict as created at import
InitialState ==
    [last_query |-> None, last_suggestions |-> <<>>, current_selection |-> None,
     selection_acknowledged |-> FALSE, session_id |-> "default"]

Init ==
    /\ _session_state = InitialState
    /\ before = InitialState
    /\ tool = Idle
    /\ args = NoArgs
    /\ status = "none"
    /\ error = NoError
    /\ output = NoOutput
    /\ calls = <<>>
    /\ pushed = <<>>
    /\ awaited = None

SearchAddress ==
    \E query \in Queries :
        LET intent == _classify_intent(query)
        IN  \E loose \in LooseReplies,
               strict \in (IF intent = "address" THEN StrictReplies ELSE {Raised}),
               sinkOk \in BOOLEAN :
                Return("search_address", [NoArgs EXCEPT !.query = query],
                       search_address(_session_state, query, intent, loose, strict, sinkOk))

SelectSuggestion ==
    \E place_id \in PlaceIds, reply \in DetailsReplies, sinkOk \in BOOLEAN :
        Return("select_suggestion", [NoArgs EXCEPT !.place_id = place_id],
               select_suggestion(_session_state, place_id, reply, sinkOk))

SelectByOrdinal ==
    \E ordinal \in Ordinals :
        LET index == OrdinalIndex(ordinal)
        IN  \E reply \in DetailsReplies, sinkOk \in BOOLEAN :
                Return("select_by_ordinal", [NoArgs EXCEPT !.ordinal = ordinal],
                       select_by_ordinal(_session_state, index, reply, sinkOk))

GetCurrentState ==
    Return("get_current_state", NoArgs, get_current_state(_session_state))

ClearSelectionTool ==
    \E sinkOk \in BOOLEAN :
        Return("clear_selection", NoArgs, clear_selection(_session_state, sinkOk))

ShowOptionsAgain ==
    \E sinkOk \in BOOLEAN :
        Return("show_options_again", NoArgs, show_options_again(_session_state, sinkOk))

ConfirmUserSelection ==
    Return("confirm_user_selection", NoArgs, confirm_user_selection(_session_state))

SetSelectionAcknowledged ==
    \E acknowledged \in AckInputs, sinkOk \in BOOLEAN :
        Return("set_selection_acknowledged", [NoArgs EXCEPT !.acknowledged = acknowledged],
               set_selection_acknowledged(_session_state, acknowledged, sinkOk))

RequestManualInput ==
    \E sinkOk \in BOOLEAN :
        Return("request_manual_input", NoArgs,
               request_manual_input(_session_state, "typing is easier", sinkOk))

\* the agent takes the returned payload; it calls tools one at a time
AgentTurn ==
    /\ tool # Idle
    /\ awaited = None \/ status = Cancelled
    /\ awaited' = None
    /\ tool' = Idle
    /\ args' = NoArgs
    /\ status' = "none"
    /\ error' = NoError
    /\ calls' = <<>>
    /\ pushed' = <<>>
    /\ before' = _session_state
    /\ UNCHANGED <<_session_state, output>>

Next ==
    \/ AgentTurn
    \/ SearchAddress
    \/ SelectSuggestion
    \/ SelectByOrdinal
    \/ GetCurrentState
    \/ ClearSelectionTool
    \/ ShowOptionsAgain
    \/ ConfirmUserSelection
    \/ SetSelectionAcknowledged
    \/ RequestManualInput

Spec == Init /\ [][Next]_vars

(* ---------------------------------------------------------------------- *)
(* The classifier over its input space: search_address is called with     *)
(* every string of at most MaxQueryLen characters of QueryChars, and the  *)
(* backend fails every lookup, so the calls it issues show the intent.    *)
(* ---------------------------------------------------------------------- *)
MaxQueryLen == 5

\* a digit, the letters of the keyword "st" in both cases, another letter, a space
QueryChars == {"1", "s", "t", "S", "a", " "}

ClassifierQueries == UNION { [1..n -> QueryChars] : n \in 0..MaxQueryLen }

ClassifiedSearch ==
    /\ tool = Idle
    /\ \E query \in ClassifierQueries :
          Return("search_address", [NoArgs EXCEPT !.query = query],
                 search_address(_session_state, query, _classify_intent(query),
                                Raised, Raised, TRUE))

ClassifierNext == ClassifiedSearch \/ AgentTurn

ClassifierSpec == Init /\ [][ClassifierNext]_vars

(* ---------------------------------------------------------------------- *)
(* select_by_ordinal over its tokens: every key of ordinal_map, keys in   *)
(* other case or with spaces around, and tokens that are no key, against  *)
(* every candidate list a search can leave.                               *)
(* ---------------------------------------------------------------------- *)
\* " 1ST ", "Second", "FIFTH ", and "sixth", "6", "6th", "0", "tenth", "1 st", ""
OrdinalTokens ==
    { e[1] : e \in ordinal_map } \cup
    { <<" ","1","S","T"," ">>, <<"S","e","c","o","n","d">>,
      <<"F","I","F","T","H"," ">>,
      <<"s","i","x","t","h">>, <<"6">>, <<"6","t","h">>, <<"0">>,
      <<"t","e","n","t","h">>, <<"1"," ","s","t">>, <<>> }

\* a suburb search, which replaces the candidate list
OrdinalSearch ==
    \E reply \in LooseReplies :
        Return("search_address",
               [NoArgs EXCEPT !.query = <<"R","i","c","h","m","o","n","d">>],
               search_address(_session_state, <<"R","i","c","h","m","o","n","d">>,
                              "suburb", reply, Raised, TRUE))

OrdinalSelect ==
    \E ordinal \in OrdinalTokens :
        Return("select_by_ordinal", [NoArgs EXCEPT !.ordinal = ordinal],
               select_by_ordinal(_session_state, OrdinalIndex(ordinal), Raised, TRUE))

OrdinalNext == OrdinalSearch \/ OrdinalSelect \/ AgentTurn

OrdinalSpec == Init /\ [][OrdinalNext]_vars

(* ---------------------------------------------------------------------- *)
(* The tools await by await.  A call runs to its first await, is resumed  *)
(* when the awaited lookup or push is over, and may be cancelled while it *)
(* waits (the call session ends).  The awaits of a call are its backend   *)
(* lookups, then its pushes; no tool writes the session state after its   *)
(* first push, and only search_address writes it before its lookups.      *)
(* ---------------------------------------------------------------------- *)
\* the awaits of a call with outcome out, each with the session state the
\* call has written when it reaches that await
Awaits(out, atLookup) ==
    [i \in 1..Len(out.calls) |-> [at |-> "backend", state |-> atLookup]] \o
    [i \in 1..Len(out.pushed) |-> [at |-> "sink", state |-> out.state]]

\* the call starts and runs to its first await, or to its return if it has none
Begin(name, a, out, atLookup) ==
    /\ tool = Idle
    /\ LET awaits == Awaits(out, atLookup)
       IN  IF awaits = <<>>
           THEN Return(name, a, out)
           ELSE /\ before' = _session_state
                /\ _session_state' = awaits[1].state
                /\ tool' = name
                /\ args' = a
                /\ awaited' = Some([at |-> awaits[1].at, rest |-> Tail(awaits),
                                    out |-> out])
                /\ UNCHANGED <<status, error, calls, pushed>>
                /\ output' = NoOutput

\* the awaited lookup or push is over: on to the next await, or to the return
Resume ==
    /\ awaited # None
    /\ status # Cancelled
    /\ LET call == awaited[1]
       IN  IF call.rest = <<>>
           THEN /\ _session_state' = call.out.state
                /\ status' = call.out.status
                /\ error' = call.out.error
                /\ output' = call.out.output
                /\ calls' = call.out.calls
                /\ pushed' = call.out.pushed
                /\ awaited' = None
           ELSE /\ _session_state' = call.rest[1].state
                /\ awaited' = Some([call EXCEPT !.at = call.rest[1].at,
                                                !.rest = Tail(call.rest)])
                /\ UNCHANGED <<status, error, output, calls, pushed>>
    /\ UNCHANGED <<before, tool, args>>

\* the call is abandoned where it waits; what it has written stays written
Cancel ==
    /\ awaited # None
    /\ status # Cancelled
    /\ status' = Cancelled
    /\ UNCHANGED <<_session_state, before, tool, args, error, output, calls, pushed,
                   awaited>>

BeginSearchAddress ==
    \E query \in Queries :
        LET intent == _classify_intent(query)
        IN  \E loose \in LooseReplies,
               strict \in (IF intent = "address" THEN StrictReplies ELSE {Raised}) :
                Begin("search_address", [NoArgs EXCEPT !.query = query],
                      search_address(_session_state, query, intent, loose, strict, TRUE),
                      ClearSelection(_session_state))

BeginSelectSuggestion ==
    \E place_id \in PlaceIds, reply \in DetailsReplies :
        Begin("select_suggestion", [NoArgs EXCEPT !.place_id = place_id],
              select_suggestion(_session_state, place_id, reply, TRUE),
              _session_state)

BeginSelectByOrdinal ==
    \E ordinal \in Ordinals, reply \in DetailsReplies :
        Begin("select_by_ordinal", [NoArgs EXCEPT !.ordinal = ordinal],
              select_by_ordinal(_session_state, OrdinalIndex(ordinal), reply, TRUE),
              _session_state)

BeginClearSelection ==
    Begin("clear_selection", NoArgs, clear_selection(_session_state, TRUE),
          _session_state)

BeginShowOptionsAgain ==
    Begin("show_options_again", NoArgs, show_options_again(_session_state, TRUE),
          _session_state)

BeginSetSelectionAcknowledged ==
    \E acknowledged \in AckInputs :
        Begin("set_selection_acknowledged",
              [NoArgs EXCEPT !.acknowledged = acknowledged],
              set_selection_acknowledged(_session_state, acknowledged, TRUE),
              _session_state)

BeginRequestManualInput ==
    Begin("request_manual_input", NoArgs,
          request_manual_input(_session_state, "typing is easier", TRUE),
          _session_state)

CancelNext ==
    \/ BeginSearchAddress
    \/ BeginSelectSuggestion
    \/ BeginSelectByOrdinal
    \/ BeginClearSelection
    \/ BeginShowOptionsAgain
    \/ BeginSetSelectionAcknowledged
    \/ BeginRequestManualInput
    \/ GetCurrentState
    \/ ConfirmUserSelection
    \/ Resume
    \/ Cancel
    \/ AgentTurn

CancelSpec == Init /\ [][CancelNext]_vars

(* ---------------------------------------------------------------------- *)
(* Two calls on the one module-level dict.  A select_suggestion call has  *)
(* found its candidate and is suspended in the place-details lookup; a    *)
(* search_address or clear_selection call runs from start to return       *)
(* meanwhile; then the lookup answers and select_suggestion goes on with  *)
(* the candidate it holds in its local variable: it assigns               *)
(* current_selection, awaits its push and returns.                        *)
(* ---------------------------------------------------------------------- *)
SelectSuspended(at) ==
    /\ awaited # None
    /\ tool = "select_suggestion"
    /\ status # Cancelled
    /\ awaited[1].at = at

\* a whole suburb search while select_suggestion waits for the details
OverlappingSearch ==
    /\ SelectSuspended("backend")
    /\ \E reply \in LooseReplies :
          _session_state' =
              search_address(_session_state, <<"R","i","c","h","m","o","n","d">>,
                             "suburb", reply, Raised, TRUE).state
    /\ UNCHANGED <<before, tool, args, status, error, output, calls, pushed, awaited>>

\* a whole clear_selection while select_suggestion waits for the details
OverlappingClear ==
    /\ SelectSuspended("backend")
    /\ _session_state' = clear_selection(_session_state, TRUE).state
    /\ UNCHANGED <<before, tool, args, status, error, output, calls, pushed, awaited>>

\* the details lookup is over: current_selection = enriched, then the push is awaited
SelectResumes ==
    /\ SelectSuspended("backend")
    /\ _session_state' =
          [_session_state EXCEPT
              !.current_selection = awaited[1].out.state.current_selection]
    /\ awaited' = Some([awaited[1] EXCEPT !.at = "sink", !.rest = <<>>])
    /\ UNCHANGED <<before, tool, args, status, error, output, calls, pushed>>

\* the push is over: select_suggestion returns confirmed
SelectReturns ==
    /\ SelectSuspended("sink")
    /\ status' = awaited[1].out.status
    /\ error' = awaited[1].out.error
    /\ output' = awaited[1].out.output
    /\ calls' = awaited[1].out.calls
    /\ pushed' = awaited[1].out.pushed
    /\ awaited' = None
    /\ UNCHANGED <<_session_state, before, tool, args>>

InterleavedNext ==
    \/ OrdinalSearch
    \/ BeginSelectSuggestion
    \/ OverlappingSearch
    \/ OverlappingClear
    \/ SelectResumes
    \/ SelectReturns
    \/ AgentTurn

InterleavedSpec == Init /\ [][InterleavedNext]_vars

(* ============================== claims ================================ *)

\* the value a lookup left: success with at least one suggestion
HasResults(reply) == ~reply.raised /\ reply.success /\ Len(reply.suggestions) > 0

\* search_address took the address-intent branch: a loose and a strict lookup
DualSearched == tool = "search_address" /\ Len(calls) = 2

\* search_address took the non-address branch: one lookup
SingleSearched == tool = "search_address" /\ Len(calls) = 1

NoSelection(st) == st.current_selection = None /\ st.selection_acknowledged = FALSE

\* C1: whenever search_address has returned, with any status, current_selection
\* is None and selection_acknowledged is false, and every backend lookup of the
\* call was issued with the selection already reset.
C1_SearchResetsSelection ==
    tool = "search_address" =>
        /\ status \in {"validated", "suggestions_available", "no_results",
                       "validation_failed", "error"}
        /\ NoSelection(_session_state)
        /\ Len(calls) >= 1
        /\ \A i \in 1..Len(calls) : NoSelection(calls[i])

\* a dual search that returned after an acknowledged selection
C1_Witness ==
    /\ DualSearched
    /\ before.current_selection # None
    /\ before.selection_acknowledged

\* C2: a present current_selection has the placeId of some element of the
\* stored suggestions, which are therefore not empty.
C2_SelectionFromCandidates ==
    _session_state.current_selection # None =>
        \E i \in 1..Len(_session_state.last_suggestions) :
            _session_state.last_suggestions[i].placeId
                = _session_state.current_selection[1].placeId

\* a selection made from a list of two
C2_Witness ==
    /\ tool \in {"select_suggestion", "select_by_ordinal"}
    /\ status = "confirmed"
    /\ _session_state.current_selection # None
    /\ Len(_session_state.last_suggestions) = 2

\* C3: whenever select_suggestion or select_by_ordinal returns confirmed,
\* selection_acknowledged is false afterwards, whatever it was before.
C3_SelectLeavesUnacknowledged ==
    (tool \in {"select_suggestion", "select_by_ordinal"} /\ status = "confirmed") =>
        _session_state.selection_acknowledged = FALSE

\* C4: after a validated search the stored suggestions are the loose list if
\* the loose lookup succeeded with at least one result, and otherwise the
\* singleton of the strict result; so they are never empty.
C4_ValidatedCandidates ==
    (DualSearched /\ status = "validated") =>
        /\ _session_state.last_suggestions =
              IF HasResults(calls[1].reply)
              THEN calls[1].reply.suggestions
              ELSE <<calls[2].reply.suggestions[1]>>
        /\ Len(_session_state.last_suggestions) > 0

\* C5: an address-intent search is validated iff the strict lookup has results;
\* otherwise suggestions_available iff the loose lookup has results, and then
\* it stores exactly the loose results, in order, and the query; otherwise
\* validation_failed.  One failed lookup never makes the search an error.
C5_StrictFirstPrecedence ==
    DualSearched =>
        LET loose  == calls[1].reply
            strict == calls[2].reply
        IN  /\ calls[1].intent = "general" /\ calls[2].intent = "address"
            /\ (status = "validated") <=> HasResults(strict)
            /\ (status = "suggestions_available") <=>
                   (~HasResults(strict) /\ HasResults(loose))
            /\ (status = "validation_failed") <=>
                   (~HasResults(strict) /\ ~HasResults(loose))
            /\ (~HasResults(strict) /\ HasResults(loose)) =>
                   /\ _session_state.last_suggestions = loose.suggestions
                   /\ _session_state.last_query = Some(args.query)
                   /\ Len(pushed) = 1
                   /\ pushed[1].updateType = "suggestions"
                   /\ pushed[1].data.suggestions = FormatAll(loose.suggestions)

\* the strict lookup raised, the loose one gave two results
C5_Witness ==
    /\ DualSearched
    /\ calls[2].reply.raised
    /\ Len(calls[1].reply.suggestions) = 2
    /\ status = "suggestions_available"

\* C6 as stated: when neither lookup of an address-intent search has results,
\* the status is validation_failed, nothing is pushed and the stored
\* suggestions are empty on return, whatever was stored before.
C6_FailedSearchLeavesNoCandidates ==
    (DualSearched /\ ~HasResults(calls[1].reply) /\ ~HasResults(calls[2].reply)) =>
        /\ status = "validation_failed"
        /\ Len(pushed) = 0
        /\ Len(_session_state.last_suggestions) = 0

\* C6 amended: when neither lookup of an address-intent search has results, the
\* status is validation_failed, nothing is pushed, and last_query and the
\* stored suggestions are what they were before the call.
C6_FailedSearchKeepsSearchState ==
    (DualSearched /\ ~HasResults(calls[1].reply) /\ ~HasResults(calls[2].reply)) =>
        /\ status = "validation_failed"
        /\ Len(pushed) = 0
        /\ _session_state.last_suggestions = before.last_suggestions
        /\ _session_state.last_query = before.last_query

\* a failed validation after a search that had stored suggestions
C6_Witness ==
    /\ DualSearched
    /\ status = "validation_failed"
    /\ Len(before.last_suggestions) > 0
    /\ before.current_selection # None

\* C7 as stated: a non-address search whose lookup succeeds with no result
\* returns no_results and pushes nothing; a suggestions update is pushed only
\* when the lookup succeeds with at least one result.
C7_NoResultsPushesNothing ==
    SingleSearched =>
        /\ (~calls[1].reply.raised /\ calls[1].reply.success
              /\ Len(calls[1].reply.suggestions) = 0)
             => (status = "no_results" /\ Len(pushed) = 0)
        /\ Len(pushed) > 0 => HasResults(calls[1].reply)

\* C7 amended: a non-address search whose lookup succeeds with no result
\* returns no_results, stores the query with an empty suggestion list and
\* pushes one suggestions update carrying the empty list; a suggestions update
\* is pushed exactly when the lookup succeeds, with any number of results.
C7_NoResultsPushesEmptyList ==
    SingleSearched =>
        LET reply == calls[1].reply
        IN  /\ (~reply.raised /\ reply.success /\ Len(reply.suggestions) = 0) =>
                  /\ status = "no_results"
                  /\ _session_state.last_query = Some(args.query)
                  /\ Len(_session_state.last_suggestions) = 0
                  /\ Len(pushed) = 1
                  /\ pushed[1].updateType = "suggestions"
                  /\ Len(pushed[1].data.suggestions) = 0
            /\ Len(pushed) > 0 <=> (~reply.raised /\ reply.success)
            /\ \A i \in 1..Len(pushed) : pushed[i].updateType = "suggestions"

\* an empty result replacing a stored list
C7_Witness ==
    /\ SingleSearched
    /\ status = "no_results"
    /\ Len(before.last_suggestions) > 0

\* C8: when the single lookup of a non-address search raises or answers
\* success = false, the status is error, nothing is pushed, and last_query and
\* the stored suggestions are what they were before the call; only the
\* selection is reset.
C8_FailedLookupKeepsSearchState ==
    (SingleSearched /\ (calls[1].reply.raised \/ ~calls[1].reply.success)) =>
        /\ status = "error"
        /\ Len(pushed) = 0
        /\ _session_state = [before EXCEPT !.current_selection = None,
                                           !.selection_acknowledged = FALSE]

\* a failed lookup after a search and a selection
C8_Witness ==
    /\ SingleSearched
    /\ status = "error"
    /\ calls[1].reply.raised
    /\ Len(before.last_suggestions) > 0
    /\ before.current_selection # None

\* the candidate a recognised, in-range ordinal with a placeId points at
OrdinalResolves ==
    /\ tool = "select_by_ordinal"
    /\ OrdinalIndex(args.ordinal) # None
    /\ OrdinalIndex(args.ordinal)[1] < Len(before.last_suggestions)
    /\ before.last_suggestions[OrdinalIndex(args.ordinal)[1] + 1].placeId # ""

\* the copy of candidate c merged with the details the enrichment call gave
IsEnrichedCopy(sel, c, reply) ==
    IF ~reply.raised /\ reply.success /\ Len(reply.details) > 0
    THEN /\ sel.placeId = c.placeId
         /\ sel.postcode = reply.details[1].postcode
         /\ sel.description = IF reply.details[1].formattedAddress = NoValue
                              THEN c.description
                              ELSE reply.details[1].formattedAddress
    ELSE sel = c

\* C9 as stated: a recognised ordinal for index i, in range, whose candidate
\* has a placeId, returns confirmed with current_selection the (enriched) copy
\* of the candidate at index i, also when placeIds repeat in the list.
C9_OrdinalSelectsThatIndex ==
    OrdinalResolves =>
        /\ status = "confirmed"
        /\ _session_state.current_selection # None
        /\ IsEnrichedCopy(_session_state.current_selection[1],
                          before.last_suggestions[OrdinalIndex(args.ordinal)[1] + 1],
                          calls[1].reply)

\* C9 amended: such an ordinal returns confirmed with current_selection the
\* (enriched) copy of the first candidate of the list that has the placeId of
\* the candidate at index i; that is the candidate at index i itself whenever
\* no earlier candidate shares its placeId.
C9_OrdinalSelectsFirstWithThatId ==
    OrdinalResolves =>
        LET list == before.last_suggestions
            i == OrdinalIndex(args.ordinal)[1] + 1
            k == CHOOSE j \in 1..i :
                    /\ list[j].placeId = list[i].placeId
                    /\ \A h \in 1..(j - 1) : list[h].placeId # list[i].placeId
        IN  /\ status = "confirmed"
            /\ _session_state.current_selection # None
            /\ IsEnrichedCopy(_session_state.current_selection[1], list[k], calls[1].reply)
            /\ (\A h \in 1..(i - 1) : list[h].placeId # list[i].placeId) => k = i

\* "second" picks the second of two candidates, enriched by the details call
C9_Witness ==
    /\ OrdinalResolves
    /\ OrdinalIndex(args.ordinal) = Some(1)
    /\ status = "confirmed"
    /\ Len(calls[1].reply.details) > 0
    /\ _session_state.current_selection[1].placeId
           = before.last_suggestions[2].placeId
    /\ before.last_suggestions[1].placeId # before.last_suggestions[2].placeId

\* C10: whenever select_suggestion, select_by_ordinal, show_options_again or
\* confirm_user_selection returns a failure status, every field of the session
\* state is what it was before the call, no backend call was made and nothing
\* was pushed.
C10_FailuresChangeNothing ==
    (/\ tool \in {"select_suggestion", "select_by_ordinal", "show_options_again",
                  "confirm_user_selection"}
     /\ status \in {"not_found", "error"}) =>
        /\ _session_state = before
        /\ Len(calls) = 0
        /\ Len(pushed) = 0
        /\ error \in {"unknown_place_id", "unrecognised_ordinal", "no_results_to_select",
                      "out_of_range", "no_place_id", "no_previous_options", "no_selection"}

\* show_options_again refused while a selection was held and acknowledged
C10_Witness ==
    /\ tool = "show_options_again"
    /\ status = "error"
    /\ before.current_selection # None
    /\ before.selection_acknowledged

(* ---------------------------------------------------------------------- *)
(* C11.  When select_suggestion finds the place id among the candidates   *)
(* and the place-details call raises (failure, timeout), answers          *)
(* success = false or answers without details, the call still returns     *)
(* confirmed, pushes exactly one selection update, and current_selection  *)
(* is the candidate with the fields it had in the list.                   *)
(* ---------------------------------------------------------------------- *)
EnrichmentFailed(reply) == reply.raised \/ ~reply.success \/ reply.details = None

\* C11: a failed enrichment still confirms, with the candidate as it was listed
C11_FailedEnrichmentStillConfirms ==
    (/\ tool = "select_suggestion"
     /\ \E k \in 1..Len(before.last_suggestions) :
            before.last_suggestions[k].placeId = args.place_id)
    => /\ Len(calls) = 1
       /\ EnrichmentFailed(calls[1].reply) =>
            /\ status = "confirmed"
            /\ Len(pushed) = 1
            /\ pushed[1].updateType = "selection"
            /\ \E k \in 1..Len(before.last_suggestions) :
                  /\ before.last_suggestions[k].placeId = args.place_id
                  /\ \A h \in 1..(k - 1) :
                        before.last_suggestions[h].placeId # args.place_id
                  /\ _session_state.current_selection = Some(before.last_suggestions[k])
                  /\ pushed[1].data.suggestions =
                        <<[placeId |-> before.last_suggestions[k].placeId,
                           description |-> before.last_suggestions[k].description]>>

C11_Witness ==
    /\ tool = "select_suggestion"
    /\ status = "confirmed"
    /\ Len(calls) = 1
    /\ calls[1].reply.raised
    /\ _session_state.current_selection # None
    /\ _session_state.current_selection[1].placeId = args.place_id

(* ---------------------------------------------------------------------- *)
(* C12.  show_options_again succeeds iff the candidate list is non-empty  *)
(* and last_query is set; on success the selection is absent and          *)
(* unacknowledged, candidates and last_query are as before, no backend    *)
(* call is made and exactly one show_options_again update carries the     *)
(* candidates in their order; otherwise it returns an error, pushes       *)
(* nothing and changes nothing.                                           *)
(* As claimed, "set" meaning not None:                                    *)
(* ---------------------------------------------------------------------- *)
ShowOptionsEffect ==
    /\ status = "options_displayed" =>
          /\ _session_state = [before EXCEPT !.current_selection = None,
                                             !.selection_acknowledged = FALSE]
          /\ calls = <<>>
          /\ Len(pushed) = 1
          /\ pushed[1].updateType = "show_options_again"
          /\ pushed[1].data.query = before.last_query
          /\ Len(pushed[1].data.suggestions) = Len(before.last_suggestions)
          /\ \A i \in 1..Len(before.last_suggestions) :
                /\ pushed[1].data.suggestions[i].placeId =
                      before.last_suggestions[i].placeId
                /\ pushed[1].data.suggestions[i].description =
                      before.last_suggestions[i].description
    /\ status # "options_displayed" =>
          /\ status = "error"
          /\ pushed = <<>>
          /\ calls = <<>>
          /\ _session_state = before

\* C12 as claimed: success iff candidates non-empty and last_query not None
C12_ShowOptionsIffSearched ==
    tool = "show_options_again" =>
        /\ status = "options_displayed" <=>
              (Len(before.last_suggestions) > 0 /\ before.last_query # None)
        /\ ShowOptionsEffect

\* C12 as the code has it: show_options_again succeeds iff the candidate
\* list is non-empty and last_query is a non-empty string (a search for ""
\* that found candidates leaves last_query = "", which `not query` rejects);
\* the effects of success and of failure are as claimed.
C12_ShowOptionsIffNonEmptyQuery ==
    tool = "show_options_again" =>
        /\ status = "options_displayed" <=>
              /\ Len(before.last_suggestions) > 0
              /\ before.last_query # None
              /\ before.last_query # Some(<<>>)
        /\ ShowOptionsEffect

C12_Witness ==
    /\ tool = "show_options_again"
    /\ status = "options_displayed"
    /\ before.current_selection # None
    /\ before.selection_acknowledged
    /\ Len(before.last_suggestions) = 2
    /\ _session_state.current_selection = None

(* ---------------------------------------------------------------------- *)
(* C13.  From every reachable state clear_selection leaves last_query     *)
(* None, no candidates, no selection and acknowledged false, keeps the    *)
(* session id, and pushes one clear update; get_current_state called on   *)
(* the state it leaves reports last_query None, 0 suggestions and no      *)
(* selection.                                                             *)
(* ---------------------------------------------------------------------- *)
C13_ClearResetsEverything ==
    tool = "clear_selection" =>
        /\ _session_state = [session_id |-> before.session_id,
                             last_query |-> None,
                             last_suggestions |-> <<>>,
                             current_selection |-> None,
                             selection_acknowledged |-> FALSE]
        /\ status = "cleared"
        /\ calls = <<>>
        /\ Len(pushed) = 1
        /\ pushed[1].updateType = "clear"
        /\ pushed[1].sessionId = before.session_id
        /\ LET next == get_current_state(_session_state)
           IN  /\ next.state = _session_state
               /\ next.output.view # None
               /\ next.output.view[1].last_query = None
               /\ next.output.view[1].num_suggestions = 0
               /\ next.output.view[1].has_selection = FALSE
               /\ next.output.view[1].selection_acknowledged = FALSE
               /\ next.output.view[1].current_selection = None

C13_Witness ==
    /\ tool = "clear_selection"
    /\ status = "cleared"
    /\ before.last_query # None
    /\ Len(before.last_suggestions) = 2
    /\ before.current_selection # None
    /\ before.selection_acknowledged
    /\ _session_state.last_suggestions = <<>>

(* ---------------------------------------------------------------------- *)
(* C14.  get_current_state, confirm_user_selection and                    *)
(* request_manual_input leave every key of the session state as it was;   *)
(* the view get_current_state returns has last_query, the number of       *)
(* candidates, whether a selection is present and the acknowledged flag   *)
(* as stored; and a get_current_state call that directly follows another  *)
(* returns the same view.                                                 *)
(* ---------------------------------------------------------------------- *)
ReadOnlyTools == {"get_current_state", "confirm_user_selection", "request_manual_input"}

\* in an idle state output.view is set exactly when the call just returned
\* was get_current_state
C14_ReadOnlyToolsStep ==
    (tool = Idle /\ tool' \in ReadOnlyTools) =>
        /\ _session_state' = _session_state
        /\ tool' = "get_current_state" =>
              /\ output'.view # None
              /\ output'.view[1].last_query = _session_state.last_query
              /\ output'.view[1].num_suggestions = Len(_session_state.last_suggestions)
              /\ output'.view[1].has_selection = (_session_state.current_selection # None)
              /\ output'.view[1].selection_acknowledged =
                    _session_state.selection_acknowledged
              /\ output.view # None => output'.view = output.view
              /\ calls' = <<>> /\ pushed' = <<>>

\* C14: every step of the three tools keeps the state, and the view is as stored
C14_ReadOnlyToolsChangeNothing == [][C14_ReadOnlyToolsStep]_vars

C14_Witness ==
    /\ tool = "get_current_state"
    /\ _session_state = before
    /\ output.view # None
    /\ output.view[1].has_selection
    /\ output.view[1].selection_acknowledged
    /\ output.view[1].num_suggestions = 2

(* ---------------------------------------------------------------------- *)
(* C15.  set_selection_acknowledged stores true iff its input, trimmed    *)
(* and lower-cased, is "true", "1" or "yes", and false otherwise, with or *)
(* without a selection; it changes no other key and pushes one update of  *)
(* type "acknowledged"; every update any tool pushes has a type among     *)
(* suggestions, selection, clear, show_options_again, acknowledged,       *)
(* request_manual_input.                                                  *)
(* ---------------------------------------------------------------------- *)
SaysYes(acknowledged) ==
    LET word == Strip(Lower(acknowledged))
    IN  \/ word = <<"t","r","u","e">>
        \/ word = <<"1">>
        \/ word = <<"y","e","s">>

AcknowledgedEffect(update_type) ==
    tool = "set_selection_acknowledged" =>
        /\ _session_state =
              [before EXCEPT !.selection_acknowledged = SaysYes(args.acknowledged)]
        /\ status = "ok"
        /\ calls = <<>>
        /\ Len(pushed) = 1
        /\ pushed[1].updateType = update_type
        /\ pushed[1].data.acknowledged = Some(SaysYes(args.acknowledged))

SameCall(sinkOk) ==
    CASE tool = "search_address" ->
            search_address(before, args.query, _classify_intent(args.query),
                           calls[1].reply,
                           IF Len(calls) = 2 THEN calls[2].reply ELSE Raised,
                           sinkOk)
      [] tool = "select_suggestion" ->
            select_suggestion(before, args.place_id, calls[1].reply, sinkOk)
      [] tool = "select_by_ordinal" ->
            select_by_ordinal(before, OrdinalIndex(args.ordinal), calls[1].reply, sinkOk)
      [] tool = "clear_selection" -> clear_selection(before, sinkOk)
      [] tool = "show_options_again" -> show_options_again(before, sinkOk)
      [] tool = "set_selection_acknowledged" ->
            set_selection_acknowledged(before, args.acknowledged, sinkOk)
      [] OTHER ->
            request_manual_input(before, pushed[1].data.reason[1], sinkOk)

SinkFailed == tool # Idle /\ \E i \in 1..Len(pushed) : ~pushed[i].delivered

\* C16: the call whose push failed returned what it returns when the push succeeds
C16_SinkFailureIsNonFatal ==
    SinkFailed =>
        LET delivered == SameCall(TRUE)
        IN  /\ _session_state = delivered.state
            /\ status = delivered.status
            /\ error = delivered.error
            /\ output = delivered.output
            /\ calls = delivered.calls
            /\ Len(pushed) = Len(delivered.pushed)
            /\ \A i \in 1..Len(pushed) :
                  [pushed[i] EXCEPT !.delivered = TRUE] = delivered.pushed[i]

C16_Witness ==
    /\ SinkFailed
    /\ tool = "search_address"
    /\ status = "validated"
    /\ Len(_session_state.last_suggestions) = 2
    /\ before.last_suggestions = <<>>

(* ---------------------------------------------------------------------- *)
(* C17.  Every call of every tool, in every state and whatever the        *)
(* backend and the sink do (answer, success = false, exception, timeout), *)
(* returns a payload with a status field; no fault leaves the tool as an  *)
(* unhandled exception.                                                   *)
(* As claimed: what every call returns has a status.                      *)
(* ---------------------------------------------------------------------- *)
C17_EveryCallReturnsStatus == tool # Idle => status # NoStatus

\* the status values each tool can put in its payload
Statuses(name) ==
    CASE name = "search_address" ->
            {"validated", "suggestions_available", "validation_failed",
             "no_results", "error"}
      [] name = "select_suggestion" -> {"confirmed", "not_found"}
      [] name = "select_by_ordinal" -> {"confirmed", "not_found", "error"}
      [] name = "clear_selection" -> {"cleared"}
      [] name = "show_options_again" -> {"options_displayed", "error"}
      [] name = "confirm_user_selection" -> {"acknowledged", "error"}
      [] name = "set_selection_acknowledged" -> {"ok"}
      [] name = "request_manual_input" -> {"hybrid_mode_activated"}
      [] OTHER -> {}

\* C17 as the code has it: every call returns a payload, whatever the
\* backend and the sink do; the payload of every tool but get_current_state
\* has a status, one of that tool's status values, and the payload of
\* get_current_state is the state view, which has no status key.
C17_EveryCallReturnsPayload ==
    tool # Idle =>
        IF tool = "get_current_state"
        THEN status = NoStatus /\ output.view # None
        ELSE status \in Statuses(tool)

C17_Witness ==
    /\ tool = "search_address"
    /\ Len(calls) = 2
    /\ calls[1].reply.raised
    /\ calls[2].reply.raised
    /\ status = "validation_failed"

(* ---------------------------------------------------------------------- *)
(* C19.  The intent of a query is that of the first rule that matches,    *)
(* in this order: the first token starts with a digit: address; some      *)
(* token is a street keyword: street; one token of length >= 3: suburb;   *)
(* two tokens and no digit anywhere: suburb; otherwise general.  Every    *)
(* query that starts with a digit is an address, street keyword or not,   *)
(* and search_address makes the strict and the loose lookup iff the       *)
(* intent is address (otherwise one lookup in the classified mode).       *)
(* Tokens are those of the trimmed, lower-cased query.                    *)
(* ---------------------------------------------------------------------- *)
FirstMatchingRule(query) ==
    LET q      == Lower(Strip(query))
        tokens == Split(q)
        digitFirst == Len(tokens) > 0 /\ IsDigit(tokens[1][1])
        keyword    == \E i \in 1..Len(tokens) : tokens[i] \in street_keywords
        oneLong    == Len(tokens) = 1 /\ Len(tokens[1]) >= 3
        twoNoDigit == Len(tokens) = 2 /\ \A i \in 1..Len(q) : ~IsDigit(q[i])
    IN  CASE digitFirst -> "address"
          [] ~digitFirst /\ keyword -> "street"
          [] ~digitFirst /\ ~keyword /\ oneLong -> "suburb"
          [] ~digitFirst /\ ~keyword /\ ~oneLong /\ twoNoDigit -> "suburb"
          [] OTHER -> "general"

\* C19: the lookups search_address issues are those of the first matching rule
C19_ClassifyFirstMatchingRule ==
    tool = "search_address" =>
        LET intent == FirstMatchingRule(args.query)
        IN  /\ Len(calls) \in {1, 2}
            /\ Len(calls) = 2 <=> intent = "address"
            /\ Len(calls) = 2 =>
                  calls[1].intent = "general" /\ calls[2].intent = "address"
            /\ Len(calls) = 1 => calls[1].intent = intent
            /\ (Len(args.query) > 0 /\ IsDigit(args.query[1])) => Len(calls) = 2

C19_Witness ==
    /\ tool = "search_address"
    /\ args.query = <<"1", " ", "S", "t">>
    /\ Len(calls) = 2

(* ---------------------------------------------------------------------- *)
(* C20.  select_by_ordinal checks in a fixed order: a token it does not   *)
(* recognise gives the unrecognised-ordinal error, with or without        *)
(* candidates; a recognised token with no candidates gives the "no        *)
(* results to select from" error; a recognised token whose position is    *)
(* beyond a non-empty list gives the out-of-range error, which states     *)
(* the length of the list.  The recognised tokens are the word, the       *)
(* digit and the suffixed digit of positions one to five, in any case     *)
(* and with spaces around.                                                *)
(* ---------------------------------------------------------------------- *)
PositionForms ==
    << { <<"f","i","r","s","t">>,     <<"1">>, <<"1","s","t">> },
       { <<"s","e","c","o","n","d">>, <<"2">>, <<"2","n","d">> },
       { <<"t","h","i","r","d">>,     <<"3">>, <<"3","r","d">> },
       { <<"f","o","u","r","t","h">>, <<"4">>, <<"4","t","h">> },
       { <<"f","i","f","t","h">>,     <<"5">>, <<"5","t","h">> } >>

\* the position (1 to 5) a token names, 0 when it names none
PositionOf(ordinal) ==
    LET token == Strip(Lower(ordinal))
    IN  IF \E n \in 1..Len(PositionForms) : token \in PositionForms[n]
        THEN CHOOSE n \in 1..Len(PositionForms) : token \in PositionForms[n]
        ELSE 0

OrdinalErrors == {"unrecognised_ordinal", "no_results_to_select", "out_of_range"}

\* C20: which error select_by_ordinal returns, by token and candidate list
C20_OrdinalChecksInOrder ==
    tool = "select_by_ordinal" =>
        LET position == PositionOf(args.ordinal)
            count    == Len(before.last_suggestions)
        IN  /\ position = 0 =>
                  status = "error" /\ error = "unrecognised_ordinal"
            /\ (position > 0 /\ count = 0) =>
                  status = "error" /\ error = "no_results_to_select"
            /\ (position > 0 /\ count > 0 /\ position > count) =>
                  /\ status = "error" /\ error = "out_of_range"
                  /\ output.count = Some(count)
            /\ (position > 0 /\ position <= count) => error \notin OrdinalErrors
            /\ error \in OrdinalErrors =>
                  _session_state = before /\ calls = <<>> /\ pushed = <<>>

C20_Witness ==
    /\ tool = "select_by_ordinal"
    /\ args.ordinal = <<"F","I","F","T","H"," ">>
    /\ Len(before.last_suggestions) = 2
    /\ error = "out_of_range"
    /\ output.count = Some(2)

(* ---------------------------------------------------------------------- *)
(* C18.  When a call is cancelled in one of its awaits (a backend lookup  *)
(* or a push), no part of its writes is visible: the session state is     *)
(* either the state the call found or the state the call leaves when it   *)
(* completes.                                                             *)
(* ---------------------------------------------------------------------- *)
C18_CancelLeavesNoPartialCommit ==
    status = Cancelled =>
        \/ _session_state = before
        \/ _session_state = awaited[1].out.state

(* ---------------------------------------------------------------------- *)
(* C21.  A select_suggestion or select_by_ordinal call that returns       *)
(* confirmed changes current_selection and nothing else: last_query and   *)
(* the candidate list, the selected candidate's own fields included, are  *)
(* as before (the details are merged onto a copy), so the same place id   *)
(* selects the same candidate again from the list it leaves.              *)
(* ---------------------------------------------------------------------- *)
C21_SelectChangesOnlySelection ==
    (tool \in {"select_suggestion", "select_by_ordinal"} /\ status = "confirmed") =>
        /\ _session_state.current_selection # None
        /\ _session_state =
              [before EXCEPT !.current_selection = _session_state.current_selection]
        /\ \A k \in 1..Len(before.last_suggestions) :
              _session_state.last_suggestions[k] = before.last_suggestions[k]
        /\ \A reply \in DetailsReplies :
              LET again == select_suggestion(_session_state,
                               _session_state.current_selection[1].placeId, reply, TRUE)
                  first == select_suggestion(before,
                               _session_state.current_selection[1].placeId, reply, TRUE)
              IN  /\ again.status = "confirmed"
                  /\ again.state.current_selection = first.state.current_selection

C21_Witness ==
    /\ tool = "select_suggestion"
    /\ status = "confirmed"
    /\ \E k \in 1..Len(before.last_suggestions) :
          /\ before.last_suggestions[k].placeId = args.place_id
          /\ _session_state.current_selection[1].postcode #
                before.last_suggestions[k].postcode
    /\ _session_state.last_suggestions = before.last_suggestions
    /\ before.current_selection # None

(* ---------------------------------------------------------------------- *)
(* C22.  The selection invariant holds under interleaving: when a         *)
(* search_address or clear_selection call has run to completion while a   *)
(* select_suggestion call was suspended in its place-details lookup, then *)
(* once both have returned current_selection is absent or has the place   *)
(* id of an element of the candidate list.                                *)
(* ---------------------------------------------------------------------- *)
C22_SelectionInCandidatesWhenInterleaved ==
    (tool = "select_suggestion" /\ awaited = None /\ status = "confirmed") =>
        \/ _session_state.current_selection = None
        \/ \E k \in 1..Len(_session_state.last_suggestions) :
              _session_state.last_suggestions[k].placeId =
                  _session_state.current_selection[1].placeId

====
